---- MODULE Spec2Model ----
(***************************************************************************)
(* Recommendation aggregation of refy (refy/suggest.py) and of its older   *)
(* variant referee (referee/suggest.py): the library query `suggest`, the  *)
(* free-text query `suggest_one` and the author query `by_author`.         *)
(*                                                                         *)
(* A constructor call is the whole program.  The initial state is the      *)
(* state at the entry of the call, with the arguments bound and with the   *)
(* collaborators' data (corpus, user library, embedding model) as they are *)
(* loaded.  Optional values are sequences: <<>> is Python's None (or an    *)
(* attribute that was never assigned), <<x>> is the value x.  A dict is a  *)
(* function; a DataFrame is a sequence of row records.                     *)
(***************************************************************************)
EXTENDS Integers, Sequences, FiniteSets, TLC

VARIABLES
    mode,         \* the constructor that runs
    pc,           \* position in the constructor
    database,     \* load_database(): the corpus, a sequence of documents
    user_papers,  \* load_user_input(): the user library (suggest)
    d2v,          \* the embedding model: text -> ranking of document ids
    query,        \* input_string (suggest_one) or the author names (by_author)
    N,            \* number of papers to suggest
    since,        \* optional year
    to,           \* optional year
    savepath,     \* optional path
    keywords,     \* suggest.keywords: optional dict keyword -> value
    n,            \* index of the next user paper of the accumulation loop
    points,       \* dict title -> points, local of get_suggestions
    papers,       \* the DataFrame handed to SimpleQuery.fill
    suggestions,  \* self.suggestions: optional sequence of rows
    live,         \* the spinner of a simple query: "none", "running", "stopped"
    file,         \* the csv file at savepath: optional sequence of rows
    listed,       \* suggestions.authors: optional list of names, set by get_authors
    authors       \* the author profile that is reported: optional dict name -> count

vars == <<mode, pc, database, user_papers, d2v, query, N, since, to, savepath,
          keywords, n, points, papers, suggestions, live, file, listed, authors>>

----------------------------------------------------------------------------
(* Bounds of the model *)

MaxDocs == 2
MaxUser == 2
MaxN == 2

(* Program constants *)

suggestions_per_paper == 100
keywords_per_paper == 10

----------------------------------------------------------------------------
(* Values *)

None == <<>>
Some(x) == <<x>>
Given(o) == Len(o) = 1
Val(o) == o[1]

EmptyDict == [k \in {} |-> 0]
Put(d, k, v) == [x \in (DOMAIN d) \cup {k} |-> IF x = k THEN v ELSE d[x]]

Min(a, b) == IF a < b THEN a ELSE b
Range(s) == {s[i] : i \in 1..Len(s)}
Head_(s, k) == SubSeq(s, 1, Min(IF k < 0 THEN 0 ELSE k, Len(s)))

RECURSIVE SumOver(_, _)
SumOver(S, f) ==
    IF S = {} THEN 0
    ELSE LET x == CHOOSE y \in S : TRUE IN f[x] + SumOver(S \ {x}, f)

Titles == {"t1", "t2"}
Years == {2014, 2015, 2016}
YearBounds == {None, Some(2015)}
Texts == {"x1", "x2"}
Paths == {None, Some("out.csv")}

(* Author names are sequences of characters, so that by_author's cleaning *)
(* is a computation on them.                                              *)
NameAb == <<"A", ".", "b">>
NameC == <<"c">>
NameZ == <<"z">>
AuthorLists == {<<NameAb>>, <<NameC, NameAb>>, <<NameC>>}
AuthorQueries == {<<<<"a", "b">>>>, <<<<"C", "!">>>>, <<NameZ>>, <<NameZ, <<"a", "b">>>>}

DefaultAuthors(i) == IF i % 2 = 1 THEN <<NameAb>> ELSE <<NameC, NameAb>>

(* The document at position i of the corpus has identifier i. *)
Docs(i, T, A) == {[id |-> i, title |-> t, year |-> y, authors |-> a] :
                     t \in T, y \in Years, a \in A}

RECURSIVE Corpora(_, _)
Corpora(k, byAuthor) ==
    IF k = 0 THEN {<<>>}
    ELSE {Append(c, d) : c \in Corpora(k - 1, byAuthor),
                         d \in IF byAuthor THEN Docs(k, Titles, AuthorLists)
                                           ELSE Docs(k, Titles, {DefaultAuthors(k)})}

Databases == UNION {Corpora(k, FALSE) : k \in 0..MaxDocs}
AuthorDatabases == UNION {Corpora(k, TRUE) : k \in 1..MaxDocs}

(* A ranking: document identifiers without repetition, best match first. *)
RECURSIVE RankingsOf(_)
RankingsOf(S) ==
    {<<>>} \cup UNION {{<<i>> \o r : r \in RankingsOf(S \ {i})} : i \in S}

Rankings == RankingsOf(1..MaxDocs)

(* The user's papers: one has the title of a corpus document, two have not. *)
UserPapers ==
    {[title |-> "t1", abstract |-> "x1"],
     [title |-> "u1", abstract |-> "x2"],
     [title |-> "u2", abstract |-> "x1"]}

RECURSIVE SeqsUpTo(_, _)
SeqsUpTo(S, k) ==
    IF k = 0 THEN {<<>>}
    ELSE SeqsUpTo(S, k - 1) \cup
         {Append(s, x) : s \in {q \in SeqsUpTo(S, k - 1) : Len(q) = k - 1}, x \in S}

UserLibraries == SeqsUpTo(UserPapers, MaxUser)

----------------------------------------------------------------------------
(* Collaborators whose code is not part of the sources at hand *)

(* d2v.D2V().predict(text, N): at most N identifiers, best match first. *)
predict(model, text, K) == Head_(model[text], K)

(* get_keywords_from_text(text, N): at most N keywords, best first. *)
ExtractedKeywords(text) ==
    IF text = "x1" THEN <<"k1", "k2">> ELSE <<"k2", "k3", "k1">>

get_keywords_from_text(text, K) == Head_(ExtractedKeywords(text), K)

(* drop_duplicates(subset="title"): the first row of each title is kept. *)
RECURSIVE drop_duplicates(_)
drop_duplicates(df) ==
    IF df = <<>> THEN <<>>
    ELSE LET init == drop_duplicates(SubSeq(df, 1, Len(df) - 1))
             last == df[Len(df)]
         IN IF \E i \in 1..Len(init) : init[i].title = last.title
            THEN init ELSE Append(init, last)

(* Suggestions(papers): the rows without duplicate titles, no score yet. *)
Suggestions(df) ==
    LET d == drop_duplicates(df)
    IN [i \in 1..Len(d) |->
          [id |-> d[i].id, title |-> d[i].title, year |-> d[i].year,
           authors |-> d[i].authors, score |-> None]]

(* Suggestions.remove_overlap(user_papers) *)
remove_overlap(rows, library) ==
    SelectSeq(rows, LAMBDA r : ~ \E i \in 1..Len(library) : library[i].title = r.title)

(* A score is the fraction <<p, m>>, read p / m. *)
ScoreLess(a, b) == a[1] * b[2] < b[1] * a[2]

(* Stable insertion of a row into rows sorted by descending score. *)
RECURSIVE InsertByScore(_, _)
InsertByScore(sorted, r) ==
    IF sorted = <<>> THEN <<r>>
    ELSE IF ScoreLess(sorted[Len(sorted)].score, r.score)
         THEN Append(InsertByScore(SubSeq(sorted, 1, Len(sorted) - 1), r),
                     sorted[Len(sorted)])
         ELSE Append(sorted, r)

RECURSIVE sort_by_score(_)
sort_by_score(rows) ==
    IF rows = <<>> THEN <<>>
    ELSE InsertByScore(sort_by_score(SubSeq(rows, 1, Len(rows) - 1)), rows[Len(rows)])

(* Suggestions.set_score(score): fills the score column, best score first. *)
set_score(rows, score) ==
    sort_by_score([i \in 1..Len(rows) |-> [rows[i] EXCEPT !.score = score[i]]])

(* Suggestions.filter(since, to): the inclusive year window. *)
filter(rows, s, t) ==
    SelectSeq(rows, LAMBDA r : /\ (Given(s) => r.year >= Val(s))
                               /\ (Given(t) => r.year <= Val(t)))

(* Suggestions.truncate(N): the first N rows. *)
truncate(rows, k) == Head_(rows, k)

(* Suggestions.to_csv(path): one line per row. *)
to_csv(rows) == Some(rows)

(* refy.utils.get_authors(paper): the author names of a corpus row. *)
get_authors(paper) == paper.authors

(* Suggestions.get_authors(): the author names of the rows, row after row. *)
RECURSIVE suggestions_get_authors(_)
suggestions_get_authors(rows) ==
    IF rows = <<>> THEN <<>>
    ELSE get_authors(rows[1]) \o suggestions_get_authors(Tail(rows))

(* Authors(names): how often each name occurs. *)
Authors(names) ==
    [a \in Range(names) |-> Cardinality({i \in 1..Len(names) : names[i] = a})]

(* refy.utils.isin(l, *args): some argument is a member of l. *)
isin(l, args) == \E i \in 1..Len(args) : \E j \in 1..Len(l) : l[j] = args[i]

----------------------------------------------------------------------------
(* refy/suggest.py: suggest *)

(* The dict comprehension of suggest_for_paper: a title that occurs twice *)
(* in `selected` keeps the value of its last occurrence.                  *)
rank_weights(selected) ==
    [t \in {selected[i].title : i \in 1..Len(selected)} |->
        LET last == CHOOSE i \in 1..Len(selected) :
                        /\ selected[i].title = t
                        /\ \A j \in 1..Len(selected) : selected[j].title = t => j <= i
        IN suggestions_per_paper - (last - 1)]

suggest_for_paper(db, model, user_paper_title, user_paper_abstract) ==
    LET best_IDs == predict(model, user_paper_abstract, suggestions_per_paper)
        selected == SelectSeq(db, LAMBDA d : d.id \in Range(best_IDs))
    IN rank_weights(selected)

(* Mutant: the points of a title are overwritten, not added to. *)
add_points_overwrite(pts_map, suggested, pts) == Put(pts_map, suggested, pts)

(* The body of the inner loop of get_suggestions. *)
add_points(pts_map, suggested, pts) ==
    IF suggested \in DOMAIN pts_map
    THEN Put(pts_map, suggested, pts_map[suggested] + pts)
    ELSE Put(pts_map, suggested, pts)

(* The inner loop of get_suggestions over paper_suggestions.items(). *)
RECURSIVE add_paper_suggestions(_, _)
add_paper_suggestions(pts_map, paper_suggestions) ==
    IF DOMAIN paper_suggestions = {} THEN pts_map
    ELSE LET t == CHOOSE x \in DOMAIN paper_suggestions : TRUE
             rest == [x \in (DOMAIN paper_suggestions) \ {t} |-> paper_suggestions[x]]
         IN add_paper_suggestions(add_points(pts_map, t, paper_suggestions[t]), rest)

(* One turn of the outer loop of get_suggestions: the points after user_paper. *)
paper_points(pts_map, db, model, user_paper) ==
    add_paper_suggestions(
        pts_map, suggest_for_paper(db, model, user_paper.title, user_paper.abstract))

(* The outer loop of get_suggestions over the rows of a user library. *)
RECURSIVE get_points(_, _, _, _)
get_points(pts_map, db, model, library) ==
    IF library = <<>> THEN pts_map
    ELSE get_points(paper_points(pts_map, db, model, library[1]), db, model, Tail(library))

(* Mutant: only `since` reaches the filter, as in referee's suggest. *)
collate_suggestions_since_only(db, library, pts_map, s, t) ==
    LET found == Suggestions(SelectSeq(db, LAMBDA d : d.title \in DOMAIN pts_map))
        fresh == remove_overlap(found, library)
        max_score == suggestions_per_paper * Len(library)
        score == [i \in 1..Len(fresh) |-> <<pts_map[fresh[i].title], max_score>>]
        scored == set_score(fresh, score)
    IN filter(scored, s, None)

(* Mutant: the user's papers are not removed, as in referee's suggest. *)
collate_suggestions_with_overlap(db, library, pts_map, s, t) ==
    LET found == Suggestions(SelectSeq(db, LAMBDA d : d.title \in DOMAIN pts_map))
        max_score == suggestions_per_paper * Len(library)
        score == [i \in 1..Len(found) |-> <<pts_map[found[i].title], max_score>>]
        scored == set_score(found, score)
    IN filter(scored, s, t)

(* Mutant: the points are divided by the maximum of a single user paper. *)
collate_suggestions_max_of_one(db, library, pts_map, s, t) ==
    LET found == Suggestions(SelectSeq(db, LAMBDA d : d.title \in DOMAIN pts_map))
        fresh == remove_overlap(found, library)
        max_score == suggestions_per_paper
        score == [i \in 1..Len(fresh) |-> <<pts_map[fresh[i].title], max_score>>]
        scored == set_score(fresh, score)
    IN filter(scored, s, t)

collate_suggestions(db, library, pts_map, s, t) ==
    LET found == Suggestions(SelectSeq(db, LAMBDA d : d.title \in DOMAIN pts_map))
        fresh == remove_overlap(found, library)
        max_score == suggestions_per_paper * Len(library)
        score == [i \in 1..Len(fresh) |-> <<pts_map[fresh[i].title], max_score>>]
        scored == set_score(fresh, score)
    IN filter(scored, s, t)

(* The body of the inner loop of get_keywords. *)
add_keyword(kws, m, kw) ==
    IF kw \in DOMAIN kws
    THEN Put(kws, kw, kws[kw] + keywords_per_paper - m)
    ELSE Put(kws, kw, 1)

(* The inner loop of get_keywords: kwds[m + 1 ..] is still to be read. *)
RECURSIVE add_paper_keywords(_, _, _)
add_paper_keywords(kws, kwds, m) ==
    IF m >= Len(kwds) THEN kws
    ELSE add_paper_keywords(add_keyword(kws, m, kwds[m + 1]), kwds, m + 1)

(* The outer loop of get_keywords. *)
RECURSIVE all_keywords(_, _)
all_keywords(kws, library) ==
    IF library = <<>> THEN kws
    ELSE all_keywords(
             add_paper_keywords(
                 kws, get_keywords_from_text(library[1].abstract, keywords_per_paper), 0),
             Tail(library))

----------------------------------------------------------------------------
(* refy/suggest.py: SimpleQuery, by_author, suggest_one *)

Punctuation ==
    {"!", "(", ")", "-", "[", "]", "{", "}", ";", ":", ",", "<", ">", ".", "/",
     "?", "@", "#", "$", "%", "^", "&", "*", "_", "~"}

(* str.lower() on the characters that occur in the model's names. *)
lower(c) ==
    CASE c = "A" -> "a"
      [] c = "B" -> "b"
      [] c = "C" -> "c"
      [] c = "Z" -> "z"
      [] OTHER -> c

(* cleans(string): the punctuation is removed, the rest is lower-cased. *)
cleans(string) ==
    LET kept == SelectSeq(string, LAMBDA c : c \notin Punctuation)
    IN [i \in 1..Len(kept) |-> lower(kept[i])]

(* clean(paper), applied to the authors get_authors found. *)
clean(paper) ==
    LET authors_clean == get_authors(paper)
    IN [i \in 1..Len(authors_clean) |-> cleans(authors_clean[i])]

(* The papers by_author keeps: those of one of the given authors. *)
papers_by_author(db, names) ==
    LET args == [i \in 1..Len(names) |-> cleans(names[i])]
    IN SelectSeq(db, LAMBDA paper : isin(clean(paper), args))

(* The papers suggest_one keeps: those the model predicts, in corpus order. *)
papers_for_string(db, model, input_string, k) ==
    LET best_IDs == predict(model, input_string, k)
    IN SelectSeq(db, LAMBDA d : d.id \in Range(best_IDs))

(* Mutant: the frame is truncated before it is filtered. *)
fill_suggestions_truncate_first(df, k, s, t) == filter(truncate(Suggestions(df), k), s, t)

(* SimpleQuery.fill: the suggestions it stores. *)
fill_suggestions(df, k, s, t) == truncate(filter(Suggestions(df), s, t), k)

----------------------------------------------------------------------------
(* Initial states: the entry of one constructor call *)

NoModel == [x \in Texts |-> <<>>]

InitSuggest ==
    /\ mode = "suggest"
    /\ pc = "keywords"
    /\ database \in Databases
    /\ user_papers \in UserLibraries
    /\ d2v \in [Texts -> Rankings]
    /\ query = None

InitSuggestOne ==
    /\ mode = "suggest_one"
    /\ pc = "start"
    /\ database \in Databases
    /\ user_papers = <<>>
    /\ d2v \in [Texts -> Rankings]
    /\ query \in {Some(x) : x \in Texts}

InitByAuthor ==
    /\ mode = "by_author"
    /\ pc = "start"
    /\ database \in AuthorDatabases
    /\ user_papers = <<>>
    /\ d2v = NoModel
    /\ query \in AuthorQueries

InitReferee ==
    /\ mode = "referee"
    /\ pc = "start"
    /\ database \in Databases
    /\ user_papers \in UserLibraries
    /\ d2v = NoModel
    /\ query = None
    /\ to = None

Init ==
    /\ InitSuggest \/ InitSuggestOne \/ InitByAuthor \/ InitReferee
    /\ N \in 0..MaxN
    /\ since \in YearBounds
    /\ to \in YearBounds
    /\ savepath \in Paths
    /\ keywords = None
    /\ n = 0
    /\ points = EmptyDict
    /\ papers = <<>>
    /\ suggestions = None
    /\ live = "none"
    /\ file = None
    /\ listed = None
    /\ authors = None

(* referee/suggest.py: the entry of get_suggestions, the data and the model *)
(* loaded and `points = {}` just assigned.                                  *)
InitRefereeLoop ==
    /\ mode = "referee"
    /\ pc = "loop"
    /\ database \in Databases
    /\ user_papers \in UserLibraries
    /\ d2v \in [Texts -> Rankings]
    /\ query = None
    /\ N \in 0..MaxN
    /\ since \in YearBounds
    /\ to = None
    /\ savepath \in Paths
    /\ keywords = None
    /\ n = 0
    /\ points = EmptyDict
    /\ papers = <<>>
    /\ suggestions = None
    /\ live = "none"
    /\ file = None
    /\ listed = None
    /\ authors = None

----------------------------------------------------------------------------
(* suggest *)

get_keywords ==
    /\ mode = "suggest"
    /\ pc = "keywords"
    /\ keywords' = Some(all_keywords(EmptyDict, user_papers))
    /\ pc' = "loop"
    /\ UNCHANGED <<mode, database, user_papers, d2v, query, N, since, to, savepath,
                   n, points, papers, suggestions, live, file, listed, authors>>

(* One turn of the loop of get_suggestions over the user papers. *)
get_suggestions_paper ==
    /\ mode = "suggest"
    /\ pc = "loop"
    /\ n < Len(user_papers)
    /\ points' = paper_points(points, database, d2v, user_papers[n + 1])
    /\ n' = n + 1
    /\ UNCHANGED <<mode, pc, database, user_papers, d2v, query, N, since, to, savepath,
                   keywords, papers, suggestions, live, file, listed, authors>>

get_suggestions_collate ==
    /\ mode = "suggest"
    /\ pc = "loop"
    /\ n = Len(user_papers)
    /\ suggestions' = Some(collate_suggestions(database, user_papers, points, since, to))
    /\ listed' = Some(suggestions_get_authors(Val(suggestions')))
    /\ pc' = "truncate"
    /\ UNCHANGED <<mode, database, user_papers, d2v, query, N, since, to, savepath,
                   keywords, n, points, papers, live, file, authors>>

get_suggestions_truncate ==
    /\ mode = "suggest"
    /\ pc = "truncate"
    /\ suggestions' = Some(truncate(Val(suggestions), N))
    /\ pc' = "save"
    /\ UNCHANGED <<mode, database, user_papers, d2v, query, N, since, to, savepath,
                   keywords, n, points, papers, live, file, listed, authors>>

(* Mutant: the collated suggestions are saved as they were before truncation. *)
get_suggestions_save_untruncated ==
    /\ mode = "suggest"
    /\ pc = "save"
    /\ file' = IF Given(savepath)
               THEN to_csv(collate_suggestions(database, user_papers, points, since, to))
               ELSE file
    /\ authors' = Some(Authors(Val(listed)))
    /\ pc' = "done"
    /\ UNCHANGED <<mode, database, user_papers, d2v, query, N, since, to, savepath,
                   keywords, n, points, papers, suggestions, live, listed>>

(* Saving, the summary (its author profile is Authors(suggestions.authors)) *)
(* and the return of get_suggestions.                                      *)
get_suggestions_save ==
    /\ mode = "suggest"
    /\ pc = "save"
    /\ file' = IF Given(savepath) THEN to_csv(Val(suggestions)) ELSE file
    /\ authors' = Some(Authors(Val(listed)))
    /\ pc' = "done"
    /\ UNCHANGED <<mode, database, user_papers, d2v, query, N, since, to, savepath,
                   keywords, n, points, papers, suggestions, live, listed>>

----------------------------------------------------------------------------
(* suggest_one and by_author *)

suggest_one_predict ==
    /\ mode = "suggest_one"
    /\ pc = "start"
    /\ live' = "running"
    /\ papers' = papers_for_string(database, d2v, Val(query), N)
    /\ pc' = "fill"
    /\ UNCHANGED <<mode, database, user_papers, d2v, query, N, since, to, savepath,
                   keywords, n, points, suggestions, file, listed, authors>>

by_author_select ==
    /\ mode = "by_author"
    /\ pc = "start"
    /\ live' = "running"
    /\ papers' = papers_by_author(database, query)
    /\ pc' = IF papers' = <<>> THEN "done" ELSE "fill"
    /\ UNCHANGED <<mode, database, user_papers, d2v, query, N, since, to, savepath,
                   keywords, n, points, suggestions, file, listed, authors>>

fill ==
    /\ mode \in {"suggest_one", "by_author"}
    /\ pc = "fill"
    /\ suggestions' = Some(fill_suggestions(papers, N, since, to))
    /\ listed' = Some(suggestions_get_authors(Val(suggestions')))
    /\ authors' = Some(Authors(Val(listed')))
    /\ pc' = "report"
    /\ UNCHANGED <<mode, database, user_papers, d2v, query, N, since, to, savepath,
                   keywords, n, points, papers, live, file>>

(* The spinner is stopped, the report shown, the suggestions saved. *)
simple_query_report ==
    /\ mode \in {"suggest_one", "by_author"}
    /\ pc = "report"
    /\ live' = "stopped"
    /\ file' = IF Given(savepath) THEN to_csv(Val(suggestions)) ELSE file
    /\ pc' = "done"
    /\ UNCHANGED <<mode, database, user_papers, d2v, query, N, since, to, savepath,
                   keywords, n, points, papers, suggestions, listed, authors>>

----------------------------------------------------------------------------
(* referee/suggest.py: suggest *)

(* __init__ reads self.savepath, which nothing has assigned. *)
referee_init ==
    /\ mode = "referee"
    /\ pc = "start"
    /\ pc' = "raised"
    /\ UNCHANGED <<mode, database, user_papers, d2v, query, N, since, to, savepath,
                   keywords, n, points, papers, suggestions, live, file, listed, authors>>

(* referee's _collate_suggestions: a frame without duplicate titles, scored, *)
(* best score first, then the `since` bound; the user's papers stay.         *)
referee_collate_suggestions(db, library, pts_map, s) ==
    LET found == Suggestions(SelectSeq(db, LAMBDA d : d.title \in DOMAIN pts_map))
        max_score == suggestions_per_paper * Len(library)
        score == [i \in 1..Len(found) |-> <<pts_map[found[i].title], max_score>>]
        sorted == set_score(found, score)
    IN IF Given(s) THEN SelectSeq(sorted, LAMBDA r : r.year >= Val(s)) ELSE sorted

(* One turn of referee's loop over the user papers. suggest_for_paper has    *)
(* the text of refy's. The inner loop binds the name `points` to the weight  *)
(* of its first item, and `points.keys()` raises on that integer: the dict   *)
(* never gets an entry, and a turn ends only when paper_suggestions is empty. *)
referee_get_suggestions_paper ==
    /\ mode = "referee"
    /\ pc = "loop"
    /\ n < Len(user_papers)
    /\ LET paper_suggestions ==
               suggest_for_paper(database, d2v, user_papers[n + 1].title,
                                 user_papers[n + 1].abstract)
       IN IF DOMAIN paper_suggestions = {}
          THEN n' = n + 1 /\ pc' = "loop"
          ELSE n' = n /\ pc' = "loop_raised"
    /\ UNCHANGED <<mode, database, user_papers, d2v, query, N, since, to, savepath,
                   keywords, points, papers, suggestions, live, file, listed, authors>>

(* After the loop: the collated frame, of which the first N rows are printed. *)
referee_get_suggestions_collate ==
    /\ mode = "referee"
    /\ pc = "loop"
    /\ n = Len(user_papers)
    /\ suggestions' = Some(referee_collate_suggestions(database, user_papers, points, since))
    /\ pc' = "done"
    /\ UNCHANGED <<mode, database, user_papers, d2v, query, N, since, to, savepath,
                   keywords, n, points, papers, live, file, listed, authors>>

----------------------------------------------------------------------------

Next ==
    \/ get_keywords
    \/ get_suggestions_paper
    \/ get_suggestions_collate
    \/ get_suggestions_truncate
    \/ get_suggestions_save
    \/ suggest_one_predict
    \/ by_author_select
    \/ fill
    \/ simple_query_report
    \/ referee_init

Spec == Init /\ [][Next]_vars

(* get_suggestions of referee's suggest, taken on its own. *)
NextRefereeLoop ==
    \/ referee_get_suggestions_paper
    \/ referee_get_suggestions_collate

SpecRefereeLoop == InitRefereeLoop /\ [][NextRefereeLoop]_vars

----------------------------------------------------------------------------
(* What the claims speak of *)

Rows == Val(suggestions)
RowTitles == {Rows[i].title : i \in 1..Len(Rows)}
UserTitles == {user_papers[i].title : i \in 1..Len(user_papers)}
InWindow(y) == (Given(since) => y >= Val(since)) /\ (Given(to) => y <= Val(to))

(* The corpus rows a frame stands for once its duplicate titles are gone. *)
FirstOfTitle(df) ==
    {i \in 1..Len(df) : \A j \in 1..(i - 1) : df[j].title # df[i].title}

(* suggest: the documents that got points, and those of them that are not *)
(* in the user library and lie in the year window.                        *)
Scored == {i \in FirstOfTitle(database) : database[i].title \in DOMAIN points}
Survivors == {i \in Scored : /\ database[i].title \notin UserTitles
                             /\ InWindow(database[i].year)}

(* A simple query: the rows of `papers` that lie in the year window. *)
PaperSurvivors == {i \in FirstOfTitle(papers) : InWindow(papers[i].year)}

----------------------------------------------------------------------------
(* C1: in a library query and in a free-text query every row of the       *)
(* recommendation set has since <= year <= to, whatever its score, and a  *)
(* bound that is omitted removes no row: before truncation the rows are   *)
(* exactly the candidates whose year satisfies the bounds that are given. *)
C1_YearWindow ==
    /\ (mode \in {"suggest", "suggest_one"} /\ Given(suggestions)) =>
           \A i \in 1..Len(Rows) : InWindow(Rows[i].year)
    /\ (mode = "suggest" /\ pc = "truncate") =>
           {Rows[i].id : i \in 1..Len(Rows)} = {database[i].id : i \in Survivors}
    /\ (mode = "suggest_one" /\ pc = "report" /\ Len(Rows) < N) =>
           {Rows[i].id : i \in 1..Len(Rows)} = {papers[i].id : i \in PaperSurvivors}

(* A library query with both bounds given has finished with a row, and a *)
(* document with more points than the first row lies outside the window. *)
C1_Witness ==
    /\ mode = "suggest" /\ pc = "done"
    /\ Given(since) /\ Given(to)
    /\ Len(Rows) >= 1
    /\ \E i \in Scored :
           /\ ~ InWindow(database[i].year)
           /\ points[database[i].title] > points[Rows[1].title]

(* C2: no document whose title is the title of a user-library entry is in *)
(* the recommendation set of suggest.  (referee's suggest raises in its    *)
(* constructor and produces no recommendation set.)                        *)
C2_NoOverlap ==
    (mode \in {"suggest", "referee"} /\ Given(suggestions)) =>
        RowTitles \cap UserTitles = {}

(* A user paper's title got points and lies in the window; the finished *)
(* recommendation set has a row.                                        *)
C2_Witness ==
    /\ mode = "suggest" /\ pc = "done"
    /\ Len(Rows) >= 1
    /\ \E i \in Scored : /\ database[i].title \in UserTitles
                         /\ InWindow(database[i].year)

(* C3: the recommendation set a query returns has min(N, number of rows   *)
(* that survived overlap removal and year filtering) rows; none if N = 0. *)
C3_Length ==
    /\ (mode = "suggest" /\ pc = "done") =>
           Len(Rows) = Min(N, Cardinality(Survivors))
    /\ (mode \in {"suggest_one", "by_author"} /\ pc = "done" /\ Given(suggestions)) =>
           Len(Rows) = Min(N, Cardinality(PaperSurvivors))
    /\ (pc = "done" /\ Given(suggestions) /\ N = 0) => Rows = <<>>

(* A finished library query in which more rows survived than N > 0. *)
C3_Witness ==
    /\ mode = "suggest" /\ pc = "done"
    /\ N > 0
    /\ Cardinality(Survivors) > N
    /\ Len(Rows) = N

(* C4: suggest writes the file only when a savepath is given, and then it *)
(* writes the filtered and truncated recommendation set: the file has one *)
(* row per row of the returned set.                                       *)
C4_Saved ==
    mode = "suggest" =>
        /\ Given(file) =>
               /\ Given(savepath)
               /\ pc = "done"
               /\ file = to_csv(Rows)
               /\ Len(Val(file)) = Min(N, Cardinality(Survivors))
        /\ (pc = "done" /\ Given(savepath)) => Given(file)

(* A file was written with fewer rows than survived the filters. *)
C4_Witness ==
    /\ mode = "suggest" /\ pc = "done"
    /\ Given(file)
    /\ Len(Val(file)) = N
    /\ Cardinality(Survivors) > N
    /\ N > 0

(* C5: every score of suggest is in (0, 1]: the points p of every title  *)
(* satisfy 0 < p <= suggestions_per_paper * (number of user papers).      *)
C5_ScoreRange ==
    mode = "suggest" =>
        /\ \A t \in DOMAIN points :
               /\ 0 < points[t]
               /\ points[t] <= suggestions_per_paper * n
               /\ points[t] <= suggestions_per_paper * Len(user_papers)
        /\ (Given(suggestions) /\ pc # "loop") =>
               \A i \in 1..Len(Rows) :
                   /\ Len(Rows[i].score) = 2
                   /\ 0 < Rows[i].score[1]
                   /\ Rows[i].score[1] <= Rows[i].score[2]
                   /\ Rows[i].score[1] = points[Rows[i].title]
                   /\ Rows[i].score[2] = suggestions_per_paper * Len(user_papers)

(* Two user papers; one row has the score 1 and another a smaller one. *)
C5_Witness ==
    /\ mode = "suggest" /\ pc = "done"
    /\ Len(user_papers) = 2
    /\ Len(Rows) = 2
    /\ Rows[1].score[1] = Rows[1].score[2]
    /\ Rows[2].score[1] < Rows[2].score[2]

----------------------------------------------------------------------------
(* The documents of the corpus have distinct titles. *)
DistinctTitles == FirstOfTitle(database) = 1..Len(database)

(* The title of the document with identifier id, which is in the corpus. *)
TitleOf(id) == database[id].title
InCorpus(id) == id \in 1..Len(database)

(* Every identifier the model returns for the text is in the corpus. *)
KnownIds(text) == \A id \in Range(d2v[text]) : InCorpus(id)

(* C6: a candidate the retriever returns at rank r (0-indexed) gets the    *)
(* weight suggestions_per_paper - r, and a document that every query ranks *)
(* at position 0 ends with the score 1.  Stated for a corpus of distinct   *)
(* titles and a retriever that returns identifiers of the corpus; the      *)
(* weights are read in the points after the first user paper.              *)
C6_RankWeight ==
    (/\ mode = "suggest"
     /\ DistinctTitles
     /\ \A i \in 1..Len(user_papers) : KnownIds(user_papers[i].abstract)) =>
        /\ (pc = "loop" /\ n = 1) =>
               LET best_IDs == predict(d2v, user_papers[1].abstract, suggestions_per_paper)
               IN \A r \in 0..(Len(best_IDs) - 1) :
                      /\ TitleOf(best_IDs[r + 1]) \in DOMAIN points
                      /\ points[TitleOf(best_IDs[r + 1])] = suggestions_per_paper - r
        /\ pc = "done" =>
               \A k \in 1..Len(Rows) :
                   (\A i \in 1..Len(user_papers) :
                        LET best_IDs == predict(d2v, user_papers[i].abstract,
                                                suggestions_per_paper)
                        IN best_IDs # <<>> /\ best_IDs[1] = Rows[k].id)
                   => Rows[k].score[1] = Rows[k].score[2]

(* C7: the points of the titles are the same for every order in which the *)
(* user papers are processed.                                             *)
C7_OrderIndependent ==
    (mode = "suggest" /\ pc # "keywords" /\ n = Len(user_papers)) =>
        \A f \in Permutations(1..Len(user_papers)) :
            get_points(EmptyDict, database, d2v,
                       [i \in 1..Len(user_papers) |-> user_papers[f[i]]]) = points

(* Two user papers with different candidates, one title got points from both. *)
C7_Witness ==
    /\ mode = "suggest" /\ pc = "done"
    /\ Len(user_papers) = 2
    /\ predict(d2v, user_papers[1].abstract, suggestions_per_paper)
           # predict(d2v, user_papers[2].abstract, suggestions_per_paper)
    /\ \E t \in DOMAIN points :
           /\ t \in DOMAIN suggest_for_paper(database, d2v, user_papers[1].title,
                                             user_papers[1].abstract)
           /\ t \in DOMAIN suggest_for_paper(database, d2v, user_papers[2].title,
                                             user_papers[2].abstract)
           /\ points[t] < 2 * suggestions_per_paper
    /\ Cardinality(DOMAIN points) = 2

(* The documents the model matches with the input string of suggest_one. *)
Matched == SelectSeq(database, LAMBDA d : d.id \in Range(d2v[Val(query)]))

(* C8: truncation to N comes after the filters: no row of the output is   *)
(* outside the year window or in the user library, and no document is cut *)
(* off by the count bound before the filters: an output of fewer than N   *)
(* rows holds every candidate that passes the filters.  For suggest_one   *)
(* it is stated for a corpus of distinct titles and a model that returns  *)
(* identifiers of the corpus.                                             *)
C8_TruncateLast ==
    (pc = "done" /\ Given(suggestions)) =>
        /\ \A i \in 1..Len(Rows) :
               InWindow(Rows[i].year) /\ Rows[i].title \notin UserTitles
        /\ (mode = "suggest" /\ Len(Rows) < N) =>
               \A i \in Survivors : database[i].title \in RowTitles
        /\ (mode = "by_author" /\ Len(Rows) < N) =>
               \A i \in PaperSurvivors : papers[i].title \in RowTitles
        /\ (mode = "suggest_one" /\ Len(Rows) < N /\ DistinctTitles
                /\ KnownIds(Val(query))) =>
               \A i \in 1..Len(Matched) :
                   InWindow(Matched[i].year) => Matched[i].title \in RowTitles

(* Nothing was found: no candidate, or no candidate that passes the filters. *)
NothingFound ==
    CASE mode = "suggest" -> Survivors = {}
      [] mode = "suggest_one" -> PaperSurvivors = {}
      [] mode = "by_author" -> PaperSurvivors = {}
      [] OTHER -> FALSE

(* C9: when nothing is found a query of refy finishes without raising and *)
(* leaves an empty recommendation set.                                    *)
C9_EmptyResult ==
    mode \in {"suggest", "suggest_one", "by_author"} =>
        /\ pc # "raised"
        /\ (pc = "done" /\ NothingFound) => suggestions = Some(<<>>)

(* The occurrences of a keyword: <<i, m>> when it is at rank m of the *)
(* keywords of user paper i.                                          *)
Occurrences(kw) ==
    {im \in (1..Len(user_papers)) \X (0..(keywords_per_paper - 1)) :
        LET kwds == get_keywords_from_text(user_papers[im[1]].abstract, keywords_per_paper)
        IN im[2] < Len(kwds) /\ kwds[im[2] + 1] = kw}

RankWeight == [im \in (1..MaxUser + 1) \X (0..(keywords_per_paper - 1)) |->
                  keywords_per_paper - im[2]]

(* C10: the value of a keyword is the sum of keywords_per_paper - m over *)
(* its occurrences at rank m, the first occurrence included.             *)
C10_KeywordWeights ==
    Given(keywords) =>
        \A kw \in DOMAIN Val(keywords) :
            Val(keywords)[kw] = SumOver(Occurrences(kw), RankWeight)

----------------------------------------------------------------------------
(* The author profile of the rows of the recommendation set. *)
RowAuthorPairs == {ij \in (1..Len(Rows)) \X (1..3) : ij[2] <= Len(Rows[ij[1]].authors)}
ProfileOfRows ==
    [a \in {Rows[ij[1]].authors[ij[2]] : ij \in RowAuthorPairs} |->
        Cardinality({ij \in RowAuthorPairs : Rows[ij[1]].authors[ij[2]] = a})]

(* C11: the author profile that is reported counts the authors of exactly *)
(* the rows that remain after filtering and truncation to N.              *)
C11_AuthorsOfFinalSet ==
    (pc = "done" /\ Given(authors)) => Val(authors) = ProfileOfRows

----------------------------------------------------------------------------
(* The weight suggest_for_paper gives title t for the i-th user paper, 0 *)
(* when t is not among its suggestions.                                  *)
WeightOf(i, t) ==
    LET ps == suggest_for_paper(database, d2v, user_papers[i].title,
                                user_papers[i].abstract)
    IN IF t \in DOMAIN ps THEN ps[t] ELSE 0

SuggestedUpTo(k) == {t \in Titles : \E i \in 1..k : WeightOf(i, t) > 0}

(* C12: after the k-th user paper the points map holds, for every title *)
(* suggested so far, the sum of the weights of papers 1..k, a new title  *)
(* getting a new entry; no step of the accumulation loop raises.         *)
C12_PointsAccumulate ==
    /\ pc # "loop_raised"
    /\ (mode \in {"suggest", "referee"} /\ pc = "loop") =>
           /\ DOMAIN points = SuggestedUpTo(n)
           /\ \A t \in DOMAIN points :
                  points[t] = SumOver(1..n, [i \in 1..n |-> WeightOf(i, t)])

----------------------------------------------------------------------------
(* C13: when the constructor of a simple query (by_author, suggest_one)  *)
(* returns after it started the spinner, the spinner has been stopped,   *)
(* on the path where nothing matches too.                                *)
C13_SpinnerStopped ==
    (mode \in {"suggest_one", "by_author"} /\ pc = "done") => live = "stopped"

====
